---------------------------- MODULE Spec2Model ----------------------------
(***************************************************************************)
(* A model of "Assignment 3/MTFindProd.c": the modular product of an array *)
(* computed sequentially and by three thread-coordination rounds of main   *)
(* (join-barrier, busy-wait with cancellation, counter/signal).            *)
(*                                                                         *)
(* C arrays are modelled as functions on 0..k-1, so that every index of    *)
(* the model is the index of the source.  The state of main is its         *)
(* position pc and its locals; a thread is an entry of the table thr.      *)
(***************************************************************************)
EXTENDS Integers, Sequences, FiniteSets, TLC

(***************************************************************************)
(* Program constants (#define lines of the source).                        *)
(***************************************************************************)
MAX_SIZE == 100000000
MAX_THREADS == 16
RANDOM_SEED == 7649
MAX_RANDOM_NUMBER == 3000
NUM_LIMIT == 9973

(***************************************************************************)
(* Bounds of the model.                                                    *)
(*   MaxN     largest array size given on the command line                 *)
(*   MaxT     largest thread count given on the command line               *)
(*   MaxRand  number of values a call of rand() may return besides the    *)
(*            value the library of the build returns                       *)
(***************************************************************************)
MaxN == 3
MaxT == 3
MaxRand == 1

(***************************************************************************)
(* atoi.  A command-line argument is a sequence of one-character strings.  *)
(* atoi of the C library of the build is (int) strtol(s, NULL, 10): it     *)
(* skips the leading characters of isspace(), takes an optional sign, and  *)
(* converts the longest run of decimal digits that follows; with no digit  *)
(* it yields 0.  For a value that an int does not hold the C standard      *)
(* leaves atoi undefined; the library of the build returns the low 32      *)
(* bits, as a signed int, of the long of strtol, which saturates at        *)
(* LONG_MAX and LONG_MIN (64 bits).  The magnitude is accumulated in four  *)
(* 16-bit limbs, least significant first, with a flag for a magnitude of   *)
(* 2^64 or more.                                                           *)
(***************************************************************************)
Digits == <<"0", "1", "2", "3", "4", "5", "6", "7", "8", "9">>

IsDigit(c) == \E d \in 1..10 : Digits[d] = c

DigitVal(c) == (CHOOSE d \in 1..10 : Digits[d] = c) - 1

(* The vertical tab, ASCII 11, for which TLA+ has no escape. *)
VerticalTab == ""

(* isspace() in the "C" locale. *)
IsSpace(c) == c \in {" ", "\t", "\n", VerticalTab, "\f", "\r"}

RECURSIVE SkipSpace(_)
SkipSpace(s) ==
    IF s # <<>> /\ IsSpace(Head(s)) THEN SkipSpace(Tail(s)) ELSE s

Limb == 2 ^ 16

HalfLimb == 2 ^ 15

ZeroAcc == [l |-> <<0, 0, 0, 0>>, big |-> FALSE]

(* acc * 10 + d *)
AccStep(acc, d) ==
    LET v0 == acc.l[1] * 10 + d
        v1 == acc.l[2] * 10 + (v0 \div Limb)
        v2 == acc.l[3] * 10 + (v1 \div Limb)
        v3 == acc.l[4] * 10 + (v2 \div Limb)
    IN  [l   |-> <<v0 % Limb, v1 % Limb, v2 % Limb, v3 % Limb>>,
         big |-> acc.big \/ (v3 \div Limb) > 0]

RECURSIVE AtoiDigits(_, _)
AtoiDigits(s, acc) ==
    IF s # <<>> /\ IsDigit(Head(s))
    THEN AtoiDigits(Tail(s), AccStep(acc, DigitVal(Head(s))))
    ELSE acc

(* The signed int whose 32 bits are the limbs h (high) and l (low). *)
Signed32(h, l) == IF h >= HalfLimb THEN (h - Limb) * Limb + l ELSE h * Limb + l

(* (int) of the long strtol returns for the magnitude acc without sign:    *)
(* above LONG_MAX the long is LONG_MAX, whose low 32 bits are -1.          *)
IntOfPositive(acc) ==
    IF acc.big \/ acc.l[4] >= HalfLimb
    THEN -1
    ELSE Signed32(acc.l[2], acc.l[1])

(* (int) of the long strtol returns for the magnitude acc with a minus     *)
(* sign: from 2^63 on the long is LONG_MIN, whose low 32 bits are 0;       *)
(* below, the low 32 bits of the two's complement of the magnitude.        *)
IntOfNegative(acc) ==
    IF acc.big \/ acc.l[4] >= HalfLimb
    THEN 0
    ELSE LET l == acc.l[1]
             h == acc.l[2]
         IN  Signed32((Limb - 1 - h + (IF l = 0 THEN 1 ELSE 0)) % Limb,
                      (Limb - l) % Limb)

Atoi(str) ==
    LET s == SkipSpace(str)
    IN  IF s = <<>> THEN 0
        ELSE IF Head(s) = "-" THEN IntOfNegative(AtoiDigits(Tail(s), ZeroAcc))
        ELSE IF Head(s) = "+" THEN IntOfPositive(AtoiDigits(Tail(s), ZeroAcc))
        ELSE IntOfPositive(AtoiDigits(s, ZeroAcc))

(***************************************************************************)
(* The decimal text of an integer, used to write the command lines the     *)
(* model starts from.                                                      *)
(***************************************************************************)
RECURSIVE DecNat(_)
DecNat(n) ==
    IF n < 10 THEN <<Digits[n + 1]>>
    ELSE Append(DecNat(n \div 10), Digits[(n % 10) + 1])

Dec(n) == IF n < 0 THEN <<"-">> \o DecNat(0 - n) ELSE DecNat(n)

(***************************************************************************)
(* C integer arithmetic.  The % of C truncates towards zero: the sign of   *)
(* the result is the sign of the dividend.  Every product the program      *)
(* forms is at most (NUM_LIMIT-1) * MAX_RANDOM_NUMBER or (NUM_LIMIT-1)^2,  *)
(* which a 32-bit int holds, so no multiplication wraps.                   *)
(***************************************************************************)
CRem(a, b) == IF a >= 0 THEN a % b ELSE 0 - ((0 - a) % b)

(***************************************************************************)
(* GetRand(x, y): a number of [x, y] from one value r of rand().           *)
(***************************************************************************)
GetRand(x, y, r) == x + CRem(r, y - x + 1)

(***************************************************************************)
(* rand().  GenerateInput seeds the generator with RANDOM_SEED and then    *)
(* calls rand() once per element, so call k of a run (from 0) yields       *)
(* element k.  RandOfBuild lists what the calls return, in order, after    *)
(* srand(RANDOM_SEED) with the C library of the build.  The C standard     *)
(* fixes no generator: with another library a call returns another value   *)
(* of 0 .. RAND_MAX, of which the model takes MaxRand, alternately from    *)
(* the top and the bottom of the residues modulo MAX_RANDOM_NUMBER (which  *)
(* GetRand maps to the largest and the smallest element).                  *)
(***************************************************************************)
RandOfBuild ==
    <<486710723, 1281692451, 928347974, 2112081153, 1854006950, 1207115089,
      903192257, 1318419945>>

SeededWith(seed) == IF seed = RANDOM_SEED THEN RandOfBuild ELSE <<>>

RandAlternative(j) ==
    IF j % 2 = 1
    THEN MAX_RANDOM_NUMBER - 1 - (j \div 2)
    ELSE (j \div 2) - 1

RandOutputs(k) ==
    {SeededWith(RANDOM_SEED)[k + 1]} \cup {RandAlternative(j) : j \in 1 .. MaxRand}

(* The values of the calls 0 .. size-1 of one run. *)
RandSequences(size) ==
    {r \in [0 .. (size - 1) -> UNION {RandOutputs(k) : k \in 0 .. (size - 1)}] :
        \A k \in 0 .. (size - 1) : r[k] \in RandOutputs(k)}

(***************************************************************************)
(* GenerateInput(size, indexForZero) with r[k] the value of the k-th call  *)
(* of rand(): every element is GetRand(1, MAX_RANDOM_NUMBER), then the     *)
(* element at indexForZero, if that is an index of the array, is zeroed.   *)
(***************************************************************************)
GenerateInput(size, zeroAt, r) ==
    [k \in 0 .. (size - 1) |->
        IF zeroAt >= 0 /\ zeroAt < size /\ k = zeroAt
        THEN 0
        ELSE GetRand(1, MAX_RANDOM_NUMBER, r[k])]

(***************************************************************************)
(* CalculateIndices.  Row i of the result is <<i, start, end>>: the        *)
(* source's indices[i][0], indices[i][1], indices[i][2].                   *)
(***************************************************************************)
ExtraOffByOne(remainder) == IF remainder > 1 THEN 1 ELSE 0

Extra(remainder) == IF remainder > 0 THEN 1 ELSE 0

RECURSIVE IndicesLoop(_, _, _, _, _, _)
IndicesLoop(k, thrdCnt, divisionSize, remainder, currentStart, rows) ==
    IF k < thrdCnt
    THEN LET extra == Extra(remainder)
             end   == currentStart + divisionSize + extra - 1
         IN  IndicesLoop(k + 1, thrdCnt, divisionSize, remainder - extra,
                         end + 1, Append(rows, <<k, currentStart, end>>))
    ELSE rows

CalculateIndices(size, thrdCnt) ==
    LET rows == IndicesLoop(0, thrdCnt, size \div thrdCnt, size % thrdCnt,
                            0, <<>>)
    IN  [k \in 0 .. (thrdCnt - 1) |-> rows[k + 1]]

(***************************************************************************)
(* SqFindProd: the loop of the source from element k on, with the running  *)
(* product.  A zero element ends the loop with 0.                          *)
(***************************************************************************)
(* Faulty variant: the loop stops one element early. *)
RECURSIVE SqLoopOffByOne(_, _, _, _)
SqLoopOffByOne(data, k, size, product) ==
    IF k < size - 1
    THEN IF data[k] = 0
         THEN 0
         ELSE SqLoopOffByOne(data, k + 1, size,
                             CRem(product * data[k], NUM_LIMIT))
    ELSE product

RECURSIVE SqLoop(_, _, _, _)
SqLoop(data, k, size, product) ==
    IF k < size
    THEN IF data[k] = 0
         THEN 0
         ELSE SqLoop(data, k + 1, size, CRem(product * data[k], NUM_LIMIT))
    ELSE product

SqFindProd(data, size) == SqLoop(data, 0, size, 1)

(***************************************************************************)
(* The elements of gData that the loop of SqFindProd reads: gData[k] is    *)
(* read by the test of line 246 in every pass, and a zero ends the loop.   *)
(***************************************************************************)
RECURSIVE SqReadLoop(_, _, _, _)
SqReadLoop(data, k, size, reads) ==
    IF k < size
    THEN IF data[k] = 0
         THEN reads \cup {k}
         ELSE SqReadLoop(data, k + 1, size, reads \cup {k})
    ELSE reads

SqReads(data, size) == SqReadLoop(data, 0, size, {})

(***************************************************************************)
(* ComputeTotalProduct: folds gThreadProd[0 .. gThreadCount-1].            *)
(***************************************************************************)
(* Faulty variant: reduction modulo MAX_RANDOM_NUMBER. *)
RECURSIVE TotalLoopWrongLimit(_, _, _, _)
TotalLoopWrongLimit(tp, k, cnt, p) ==
    IF k < cnt
    THEN TotalLoopWrongLimit(tp, k + 1, cnt,
                             CRem(p * tp[k], MAX_RANDOM_NUMBER))
    ELSE p

(* Faulty variant: the last slot is left out. *)
RECURSIVE TotalLoopSkipsLast(_, _, _, _)
TotalLoopSkipsLast(tp, k, cnt, p) ==
    IF k < cnt - 1
    THEN TotalLoopSkipsLast(tp, k + 1, cnt, CRem(p * tp[k], NUM_LIMIT))
    ELSE p

RECURSIVE TotalLoop(_, _, _, _)
TotalLoop(tp, k, cnt, p) ==
    IF k < cnt
    THEN TotalLoop(tp, k + 1, cnt, CRem(p * tp[k], NUM_LIMIT))
    ELSE p

ComputeTotalProduct(tp, cnt) == TotalLoop(tp, 0, cnt, 1)

(***************************************************************************)
(* The local product of ThFindProdWithSemaphore over gData[start .. end].  *)
(***************************************************************************)
(* Faulty variant: the loop stops one element early. *)
RECURSIVE LocalLoopOffByOne(_, _, _, _)
LocalLoopOffByOne(data, k, end, localProd) ==
    IF k < end
    THEN IF data[k] = 0
         THEN 0
         ELSE LocalLoopOffByOne(data, k + 1, end,
                                CRem(localProd * data[k], NUM_LIMIT))
    ELSE localProd

RECURSIVE LocalLoop(_, _, _, _)
LocalLoop(data, k, end, localProd) ==
    IF k <= end
    THEN IF data[k] = 0
         THEN 0
         ELSE LocalLoop(data, k + 1, end, CRem(localProd * data[k], NUM_LIMIT))
    ELSE localProd

LocalProduct(data, start, end) == LocalLoop(data, start, end, 1)

(***************************************************************************)
(* The values formed by the multiplications of the three loops, before     *)
(* their reduction: product * gData[i] (line 249), localProd * gData[i]    *)
(* (line 305) and prod * gThreadProd[i] (line 328).                        *)
(***************************************************************************)
RECURSIVE SqProducts(_, _, _, _, _)
SqProducts(data, k, size, product, acc) ==
    IF k < size
    THEN IF data[k] = 0
         THEN acc
         ELSE SqProducts(data, k + 1, size,
                         CRem(product * data[k], NUM_LIMIT),
                         acc \cup {product * data[k]})
    ELSE acc

RECURSIVE LocalProducts(_, _, _, _, _)
LocalProducts(data, k, end, localProd, acc) ==
    IF k <= end
    THEN IF data[k] = 0
         THEN acc
         ELSE LocalProducts(data, k + 1, end,
                            CRem(localProd * data[k], NUM_LIMIT),
                            acc \cup {localProd * data[k]})
    ELSE acc

RECURSIVE TotalProducts(_, _, _, _, _)
TotalProducts(tp, k, cnt, p, acc) ==
    IF k < cnt
    THEN TotalProducts(tp, k + 1, cnt, CRem(p * tp[k], NUM_LIMIT),
                       acc \cup {p * tp[k]})
    ELSE acc

(***************************************************************************)
(* State.                                                                  *)
(*   argv              the arguments after the program name (argc is their *)
(*                     number plus one)                                    *)
(*   arraySize, indexForZero, i, prod, tid, indices, params                *)
(*                     locals of main (of indices and params the rows      *)
(*                     written so far)                                     *)
(*   gThreadCount, gData, gThreadProd, gThreadDone, gDoneThreadCount       *)
(*                     the globals (zero-initialised; of gData only the    *)
(*                     elements 0..arraySize-1 that GenerateInput writes   *)
(*                     are kept)                                           *)
(*   completed, mutex  the values of the two semaphores                    *)
(*   all_done, found_zero, zero_found                                      *)
(*                     locals of the busy-wait and counter/signal rounds   *)
(*   pc                the position of main                                *)
(*   thr               the threads created so far: handle -> status        *)
(*   wpc, wLocalProd, wReg                                                 *)
(*                     position and locals of each ThFindProdWithSemaphore *)
(*                     worker, by thread number                            *)
(*   out, err, exitCode                                                    *)
(*                     the product lines printed, the error line printed,  *)
(*                     the argument of exit                                *)
(*   ops               history: the pthread_create, pthread_cancel and     *)
(*                     pthread_join calls of main, in order                *)
(*   waits             history: the sem_wait(&completed) calls of main     *)
(*                     that have returned                                  *)
(*   posts             history: the sem_post(&completed) calls made        *)
(*   writes            history: writes[k] is the number of stores to       *)
(*                     gThreadProd made by the worker with thread number k *)
(***************************************************************************)
VARIABLES argv, arraySize, gThreadCount, indexForZero,
          gData, indices, params,
          gThreadProd, gThreadDone, gDoneThreadCount,
          completed, mutex,
          pc, i, prod, all_done, found_zero, zero_found,
          tid, thr, ops,
          wpc, wLocalProd, wReg,
          out, err, exitCode, waits, posts, writes

inputs  == <<argv, arraySize, gThreadCount, indexForZero>>
data    == <<gData, indices, params>>
shared  == <<gThreadProd, gThreadDone, gDoneThreadCount>>
sems    == <<completed, mutex>>
flags   == <<all_done, found_zero, zero_found>>
threads == <<tid, thr, ops>>
workers == <<wpc, wLocalProd, wReg>>
io      == <<out, err, exitCode>>
hist    == <<waits, posts, writes>>

vars == <<inputs, data, shared, sems, pc, i, prod, flags, threads, workers,
          io, hist>>

(***************************************************************************)
(* Values before the first assignment.  A local of main holds an           *)
(* indeterminate value until it is assigned, and so does a semaphore       *)
(* before sem_init; no action reads one before it is written, so the       *)
(* model keeps a fixed value of the variable's type there: 0 for an int,   *)
(* FALSE for a bool, NoHandle for a pthread_t.  No error line printed is   *)
(* the empty string, and exitCode has a meaning at pc = "done" only.       *)
(***************************************************************************)
NoHandle == <<"none", 0>>

ThreadIdx == 0 .. (MAX_THREADS - 1)

(***************************************************************************)
(* The command lines the model starts from: an array size, a thread count  *)
(* and a zero index, each the decimal text of a number below, at and       *)
(* above its valid range, text that is no number, text with leading white  *)
(* space, or the text of a number an int does not hold; and two command    *)
(* lines with the wrong number of arguments.                               *)
(***************************************************************************)
SizeArgs == {Dec(n) : n \in (-1 .. MaxN) \cup {MAX_SIZE + 1}}
                \cup {<<"x">>, <<"+", "1">>, <<"2", "x">>,
                      <<"4", "2", "9", "4", "9", "6", "7", "2", "9", "7">>,
                      <<"2", "1", "4", "7", "4", "8", "3", "6", "4", "8">>}

CountArgs == {Dec(n) : n \in (-1 .. MaxT) \cup {MAX_THREADS + 1}}
                \cup {<<"x">>, <<"\f", "1">>}

ZeroArgs == {Dec(n) : n \in -2 .. MaxN} \cup {<<VerticalTab, "0">>}

CommandLines ==
    {<<a, b, c>> : a \in SizeArgs, b \in CountArgs, c \in ZeroArgs}
        \cup {<<Dec(1), Dec(1)>>, <<Dec(1), Dec(1), Dec(-1), Dec(0)>>}

(***************************************************************************)
(* The state at the entry of main.                                         *)
(***************************************************************************)
Init ==
    /\ argv \in CommandLines
    /\ arraySize = 0
    /\ gThreadCount = 0
    /\ indexForZero = 0
    /\ gData = <<>>
    /\ indices = <<>>
    /\ params = <<>>
    /\ gThreadProd = [k \in ThreadIdx |-> 0]
    /\ gThreadDone = [k \in ThreadIdx |-> FALSE]
    /\ gDoneThreadCount = 0
    /\ completed = 0
    /\ mutex = 0
    /\ pc = "check_argc"
    /\ i = 0
    /\ prod = 0
    /\ all_done = FALSE
    /\ found_zero = FALSE
    /\ zero_found = FALSE
    /\ tid = [k \in ThreadIdx |-> NoHandle]
    /\ thr = <<>>
    /\ ops = <<>>
    /\ wpc = <<>>
    /\ wLocalProd = <<>>
    /\ wReg = <<>>
    /\ out = <<>>
    /\ err = ""
    /\ exitCode = 0
    /\ waits = 0
    /\ posts = 0
    /\ writes = [k \in ThreadIdx |-> 0]

(***************************************************************************)
(* exit(-1) after an error line: the process ends.                         *)
(***************************************************************************)
ErrorExit(msg) ==
    /\ err' = msg
    /\ exitCode' = -1
    /\ pc' = "done"
    /\ UNCHANGED out

(***************************************************************************)
(* main, lines 51-68: the checks of the command line.                      *)
(***************************************************************************)
CheckArgc ==
    /\ pc = "check_argc"
    /\ IF Len(argv) + 1 # 4
       THEN ErrorExit("Invalid number of arguments!")
       ELSE pc' = "check_size" /\ UNCHANGED io
    /\ UNCHANGED <<inputs, data, shared, sems, i, prod, flags, threads,
                   workers, hist>>

SizeInvalid(n) == n <= 0 \/ n > MAX_SIZE

CheckSize ==
    /\ pc = "check_size"
    /\ arraySize' = Atoi(argv[1])
    /\ IF SizeInvalid(arraySize')
       THEN ErrorExit("Invalid Array Size")
       ELSE pc' = "check_count" /\ UNCHANGED io
    /\ UNCHANGED <<argv, gThreadCount, indexForZero, data, shared, sems, i,
                   prod, flags, threads, workers, hist>>

CountInvalid(t) == t > MAX_THREADS \/ t <= 0

CheckCount ==
    /\ pc = "check_count"
    /\ gThreadCount' = Atoi(argv[2])
    /\ IF CountInvalid(gThreadCount')
       THEN ErrorExit("Invalid Thread Count")
       ELSE pc' = "check_zero" /\ UNCHANGED io
    /\ UNCHANGED <<argv, arraySize, indexForZero, data, shared, sems, i,
                   prod, flags, threads, workers, hist>>

ZeroInvalidOffByOne(z, n) == z < -1 \/ z > n

ZeroInvalid(z, n) == z < -1 \/ z >= n

CheckZero ==
    /\ pc = "check_zero"
    /\ indexForZero' = Atoi(argv[3])
    /\ IF ZeroInvalid(indexForZero', arraySize)
       THEN ErrorExit("Invalid index for zero!")
       ELSE pc' = "generate" /\ UNCHANGED io
    /\ UNCHANGED <<argv, arraySize, gThreadCount, data, shared, sems, i,
                   prod, flags, threads, workers, hist>>

(***************************************************************************)
(* main, line 70: GenerateInput, each rand() a free choice.                *)
(***************************************************************************)
Generate ==
    /\ pc = "generate"
    /\ \E r \in RandSequences(arraySize) :
           gData' = GenerateInput(arraySize, indexForZero, r)
    /\ pc' = "indices"
    /\ UNCHANGED <<inputs, indices, params, shared, sems, i, prod, flags,
                   threads, workers, io, hist>>

(***************************************************************************)
(* main, line 71.                                                          *)
(***************************************************************************)
Indices ==
    /\ pc = "indices"
    /\ indices' = CalculateIndices(arraySize, gThreadCount)
    /\ pc' = "sequential"
    /\ UNCHANGED <<inputs, gData, params, shared, sems, i, prod, flags,
                   threads, workers, io, hist>>

(***************************************************************************)
(* A product line of the output: the round and the product printed.        *)
(***************************************************************************)
Report(mode, p) == [mode |-> mode, prod |-> p]

(***************************************************************************)
(* main, lines 74-76: the sequential product and its line of output.       *)
(***************************************************************************)
Sequential ==
    /\ pc = "sequential"
    /\ prod' = SqFindProd(gData, arraySize)
    /\ out' = Append(out, Report("sequential", prod'))
    /\ pc' = "a_init"
    /\ UNCHANGED <<inputs, data, shared, sems, i, flags, threads, workers,
                   err, exitCode, hist>>

(***************************************************************************)
(* InitSharedVars: the slots of the gThreadCount threads, and the counter. *)
(***************************************************************************)
InitSharedVars ==
    /\ gThreadDone' = [k \in ThreadIdx |->
                          IF k < gThreadCount THEN FALSE ELSE gThreadDone[k]]
    /\ gThreadProd' = [k \in ThreadIdx |->
                          IF k < gThreadCount THEN 1 ELSE gThreadProd[k]]
    /\ gDoneThreadCount' = 0

(***************************************************************************)
(* Thread handles.  The handle pthread_create stores for thread number k   *)
(* of round r ("a" join-barrier, "b" busy-wait) is <<r, k>>.  A thread is  *)
(* "running" from its creation, "returned" once its start routine has      *)
(* returned, "cancelled" once it has acted on a cancellation request, and  *)
(* "joined" once pthread_join has reaped it.                               *)
(***************************************************************************)
Handle(round, k) == <<round, k>>

Terminated(h) == thr[h] \in {"returned", "cancelled"}

(***************************************************************************)
(* main, lines 79-80: InitSharedVars before the join-barrier round.        *)
(***************************************************************************)
AInit ==
    /\ pc = "a_init"
    /\ InitSharedVars
    /\ pc' = "a_create"
    /\ i' = 0
    /\ UNCHANGED <<inputs, data, sems, prod, flags, threads, workers, io,
                   hist>>

(***************************************************************************)
(* main, lines 97-103: one pass of the creation loop, or its end.          *)
(***************************************************************************)
ACreate ==
    /\ pc = "a_create"
    /\ IF i < gThreadCount
       THEN /\ params' = params @@ (i :> <<i, indices[i][2], indices[i][3]>>)
            /\ tid' = [tid EXCEPT ![i] = Handle("a", i)]
            /\ thr' = thr @@ (Handle("a", i) :> "running")
            /\ ops' = Append(ops, <<"create", "a", Handle("a", i)>>)
            /\ i' = i + 1
            /\ pc' = pc
       ELSE /\ pc' = "a_join"
            /\ i' = 0
            /\ UNCHANGED <<params, threads>>
    /\ UNCHANGED <<inputs, gData, indices, shared, sems, prod, flags,
                   workers, io, hist>>

(***************************************************************************)
(* ThFindProd, lines 267-281, run by thread h: it reads its parameters,    *)
(* prints a line, runs an empty loop and returns.  It writes no shared     *)
(* variable.  A thread with a cancellation request pending may act on it   *)
(* in printf, a cancellation point, or return first.                       *)
(***************************************************************************)
ThFindProd(h) ==
    /\ thr[h] \in {"running", "cancel_pending"}
    /\ \E st \in (IF thr[h] = "running"
                  THEN {"returned"}
                  ELSE {"returned", "cancelled"}) :
           thr' = [thr EXCEPT ![h] = st]
    /\ UNCHANGED <<inputs, data, shared, sems, pc, i, prod, flags, tid, ops,
                   workers, io, hist>>

(***************************************************************************)
(* main, lines 105-107: pthread_join(tid[i]) returns once the thread has   *)
(* terminated.                                                             *)
(***************************************************************************)
AJoinOneShort ==
    /\ pc = "a_join"
    /\ IF i < gThreadCount - 1
       THEN /\ Terminated(tid[i])
            /\ thr' = [thr EXCEPT ![tid[i]] = "joined"]
            /\ ops' = Append(ops, <<"join", "a", tid[i]>>)
            /\ i' = i + 1
            /\ pc' = pc
            /\ UNCHANGED tid
       ELSE /\ pc' = "a_destroy"
            /\ i' = 0
            /\ UNCHANGED threads
    /\ UNCHANGED <<inputs, data, shared, sems, prod, flags, workers, io,
                   hist>>

(* Faulty variant: every pass joins tid[0]. *)
AJoinSameHandle ==
    /\ pc = "a_join"
    /\ IF i < gThreadCount
       THEN /\ thr[tid[0]] \in {"returned", "cancelled", "joined"}
            /\ thr' = [thr EXCEPT ![tid[0]] = "joined"]
            /\ ops' = Append(ops, <<"join", "a", tid[0]>>)
            /\ i' = i + 1
            /\ pc' = pc
            /\ UNCHANGED tid
       ELSE /\ pc' = "a_destroy"
            /\ i' = 0
            /\ UNCHANGED threads
    /\ UNCHANGED <<inputs, data, shared, sems, prod, flags, workers, io,
                   hist>>

AJoin ==
    /\ pc = "a_join"
    /\ IF i < gThreadCount
       THEN /\ Terminated(tid[i])
            /\ thr' = [thr EXCEPT ![tid[i]] = "joined"]
            /\ ops' = Append(ops, <<"join", "a", tid[i]>>)
            /\ i' = i + 1
            /\ pc' = pc
            /\ UNCHANGED tid
       ELSE /\ pc' = "a_destroy"
            /\ i' = 0
            /\ UNCHANGED threads
    /\ UNCHANGED <<inputs, data, shared, sems, prod, flags, workers, io,
                   hist>>

(***************************************************************************)
(* main, lines 109-111: the attribute objects are destroyed.               *)
(***************************************************************************)
ADestroy ==
    /\ pc = "a_destroy"
    /\ pc' = "a_compute"
    /\ i' = gThreadCount
    /\ UNCHANGED <<inputs, data, shared, sems, prod, flags, threads,
                   workers, io, hist>>

(***************************************************************************)
(* main, lines 116-117: the product of the join-barrier round is printed.  *)
(***************************************************************************)
ACompute ==
    /\ pc = "a_compute"
    /\ prod' = ComputeTotalProduct(gThreadProd, gThreadCount)
    /\ out' = Append(out, Report("join-barrier", prod'))
    /\ pc' = "a_exit"
    /\ UNCHANGED <<inputs, data, shared, sems, i, flags, threads, workers,
                   err, exitCode, hist>>

(***************************************************************************)
(* main, line 120: exit(0).  Nothing after it runs.                        *)
(***************************************************************************)
AExit ==
    /\ pc = "a_exit"
    /\ exitCode' = 0
    /\ pc' = "done"
    /\ UNCHANGED <<inputs, data, shared, sems, i, prod, flags, threads,
                   workers, out, err, hist>>

(***************************************************************************)
(* The threads running ThFindProd.                                         *)
(***************************************************************************)
Stub == \E h \in DOMAIN thr : ThFindProd(h)

(***************************************************************************)
(* The program: main as it is written, from its entry to exit.             *)
(***************************************************************************)
Next ==
    \/ CheckArgc \/ CheckSize \/ CheckCount \/ CheckZero
    \/ Generate \/ Indices \/ Sequential
    \/ AInit \/ ACreate \/ AJoin \/ ADestroy \/ ACompute \/ AExit
    \/ Stub

Spec == Init /\ [][Next]_vars

(* The steps of main from GenerateInput to exit, lines 70-120. *)
MainRun ==
    \/ Generate \/ Indices \/ Sequential
    \/ AInit \/ ACreate \/ AJoin \/ ADestroy \/ ACompute \/ AExit

(***************************************************************************)
(* The scheduler lets main and every thread that can run take its steps.   *)
(* A check of the command line (lines 51-68) waits for nothing, so its     *)
(* fairness is that main does not stay at it.                              *)
(***************************************************************************)
FairSpec ==
    /\ Spec
    /\ []<>(pc \notin {"check_argc", "check_size", "check_count",
                        "check_zero"})
    /\ WF_vars(MainRun)
    /\ WF_vars(Stub)

(***************************************************************************)
(* The state in which main reaches the exit(0) of line 120.                *)
(***************************************************************************)
ValidCommandLines ==
    {c \in CommandLines :
        /\ Len(c) = 3
        /\ ~SizeInvalid(Atoi(c[1]))
        /\ ~CountInvalid(Atoi(c[2]))
        /\ ~ZeroInvalid(Atoi(c[3]), Atoi(c[1]))}

(***************************************************************************)
(* What lines 42-101 leave when the threads have been joined: the command  *)
(* line read, the array generated and split, the parameters of lines       *)
(* 99-101, the shared variables as InitSharedVars set them.                *)
(***************************************************************************)
ProgramData ==
    /\ argv \in ValidCommandLines
    /\ arraySize = Atoi(argv[1])
    /\ gThreadCount = Atoi(argv[2])
    /\ indexForZero = Atoi(argv[3])
    /\ \E r \in RandSequences(arraySize) :
           gData = GenerateInput(arraySize, indexForZero, r)
    /\ indices = CalculateIndices(arraySize, gThreadCount)
    /\ params = [k \in 0 .. (gThreadCount - 1) |->
                    <<k, indices[k][2], indices[k][3]>>]
    /\ gThreadProd = [k \in ThreadIdx |-> IF k < gThreadCount THEN 1 ELSE 0]
    /\ gDoneThreadCount = 0
    /\ completed = 0
    /\ mutex = 0
    /\ i = gThreadCount
    /\ prod = ComputeTotalProduct(gThreadProd, gThreadCount)
    /\ zero_found = FALSE
    /\ wpc = <<>>
    /\ wLocalProd = <<>>
    /\ wReg = <<>>
    /\ err = ""
    /\ exitCode = 0
    /\ waits = 0
    /\ posts = 0
    /\ writes = [k \in ThreadIdx |-> 0]

(* The pthread calls of one round on its own threads, in order. *)
RoundOps(round) ==
    [k \in 1 .. (2 * gThreadCount) |->
        IF k <= gThreadCount
        THEN <<"create", round, Handle(round, k - 1)>>
        ELSE <<"join", round, Handle(round, k - 1 - gThreadCount)>>]

(***************************************************************************)
(* The state lines 42-117 leave: the sequential and the join-barrier       *)
(* products printed, the threads of the join-barrier round created and     *)
(* joined.                                                                 *)
(***************************************************************************)
AfterJoinBarrier ==
    /\ ProgramData
    /\ gThreadDone = [k \in ThreadIdx |-> FALSE]
    /\ all_done = FALSE
    /\ found_zero = FALSE
    /\ tid = [k \in ThreadIdx |->
                 IF k < gThreadCount THEN Handle("a", k) ELSE NoHandle]
    /\ thr = [h \in {Handle("a", k) : k \in 0 .. (gThreadCount - 1)} |->
                 "joined"]
    /\ ops = RoundOps("a")
    /\ out = <<Report("sequential", SqFindProd(gData, arraySize)),
               Report("join-barrier", prod)>>

(* AfterJoinBarrier is the state in which main reaches line 120. *)
JoinBarrierLeaves == pc = "a_exit" => AfterJoinBarrier

(***************************************************************************)
(* The code of main after exit(0).                                         *)
(*                                                                         *)
(* Lines 122-227, the busy-wait round and the counter/signal round, follow *)
(* the exit(0) of line 120: no run of the program reaches them.  Their     *)
(* statements are translated below as the steps main would take there;     *)
(* they are no part of Next, and UnreachedCode states that none of them    *)
(* is ever enabled.                                                        *)
(*                                                                         *)
(* The busy-wait round, lines 123-172.                                     *)
(***************************************************************************)
(* Lines 123-124. *)
BInit ==
    /\ pc = "b_init"
    /\ InitSharedVars
    /\ pc' = "b_flags"
    /\ UNCHANGED <<inputs, data, sems, i, prod, flags, threads, workers, io,
                   hist>>

(* Lines 138-139. *)
BFlags ==
    /\ pc = "b_flags"
    /\ all_done' = FALSE
    /\ found_zero' = FALSE
    /\ pc' = "b_create"
    /\ i' = 0
    /\ UNCHANGED <<inputs, data, shared, sems, prod, zero_found, threads,
                   workers, io, hist>>

(* Lines 141-143: the threads run ThFindProd on the params of lines 99-101. *)
BCreate ==
    /\ pc = "b_create"
    /\ IF i < gThreadCount
       THEN /\ tid' = [tid EXCEPT ![i] = Handle("b", i)]
            /\ thr' = thr @@ (Handle("b", i) :> "running")
            /\ ops' = Append(ops, <<"create", "b", Handle("b", i)>>)
            /\ i' = i + 1
            /\ pc' = pc
       ELSE /\ pc' = "b_while"
            /\ i' = i
            /\ UNCHANGED threads
    /\ UNCHANGED <<inputs, data, shared, sems, prod, flags, workers, io,
                   hist>>

(* Lines 145-146: the test of the while loop and, inside it, the reset of  *)
(* all_done before a sweep.                                                *)
BWhile ==
    /\ pc = "b_while"
    /\ IF ~all_done
       THEN /\ all_done' = TRUE
            /\ i' = 0
            /\ pc' = "b_sweep"
       ELSE /\ pc' = "b_cancel"
            /\ UNCHANGED <<all_done, i>>
    /\ UNCHANGED <<inputs, data, shared, sems, prod, found_zero, zero_found,
                   threads, workers, io, hist>>

(* Lines 147-155: one pass of the sweep over the done flags, or its end.   *)
(* The product of a thread is looked at only while its flag is not set.    *)
BSweep ==
    /\ pc = "b_sweep"
    /\ IF i < gThreadCount
       THEN IF ~gThreadDone[i]
            THEN /\ all_done' = FALSE
                 /\ IF gThreadProd[i] = 0
                    THEN /\ found_zero' = TRUE
                         /\ pc' = "b_break"
                         /\ i' = i
                    ELSE /\ i' = i + 1
                         /\ pc' = pc
                         /\ UNCHANGED found_zero
            ELSE /\ i' = i + 1
                 /\ pc' = pc
                 /\ UNCHANGED <<all_done, found_zero>>
       ELSE /\ pc' = "b_break"
            /\ UNCHANGED <<i, all_done, found_zero>>
    /\ UNCHANGED <<inputs, data, shared, sems, prod, zero_found, threads,
                   workers, io, hist>>

(* Line 156. *)
BBreak ==
    /\ pc = "b_break"
    /\ pc' = IF found_zero THEN "b_cancel" ELSE "b_while"
    /\ UNCHANGED <<inputs, data, shared, sems, i, prod, flags, threads,
                   workers, io, hist>>

(* Line 159, and the i = 0 that opens the loop the test leads to (line     *)
(* 160 or line 164).                                                       *)
BCancel ==
    /\ pc = "b_cancel"
    /\ pc' = IF found_zero THEN "b_cancelling" ELSE "b_join"
    /\ i' = 0
    /\ UNCHANGED <<inputs, data, shared, sems, prod, flags, threads,
                   workers, io, hist>>

(* Lines 160-162: one pthread_cancel(tid[i]) per pass; a request to a      *)
(* thread that has terminated does nothing.  After the last pass, the      *)
(* i = 0 of line 164.                                                      *)
BCancelling ==
    /\ pc = "b_cancelling"
    /\ IF i < gThreadCount
       THEN /\ ops' = Append(ops, <<"cancel", "b", tid[i]>>)
            /\ thr' = [thr EXCEPT ![tid[i]] =
                           IF @ = "running" THEN "cancel_pending" ELSE @]
            /\ i' = i + 1
            /\ pc' = pc
       ELSE /\ pc' = "b_join"
            /\ i' = 0
            /\ UNCHANGED <<thr, ops>>
    /\ UNCHANGED <<inputs, data, shared, sems, prod, flags, tid, workers,
                   io, hist>>

(* Lines 164-166: one pthread_join(tid[i]) per pass; main waits in the     *)
(* call, with the i of the pass, until the thread has terminated.          *)
BJoin ==
    /\ pc = "b_join"
    /\ IF i < gThreadCount
       THEN /\ Terminated(tid[i])
            /\ thr' = [thr EXCEPT ![tid[i]] = "joined"]
            /\ ops' = Append(ops, <<"join", "b", tid[i]>>)
            /\ i' = i + 1
            /\ pc' = pc
       ELSE /\ pc' = "b_compute"
            /\ i' = i
            /\ UNCHANGED <<thr, ops>>
    /\ UNCHANGED <<inputs, data, shared, sems, prod, flags, tid, workers,
                   io, hist>>

(* Lines 171-172. *)
BCompute ==
    /\ pc = "b_compute"
    /\ prod' = ComputeTotalProduct(gThreadProd, gThreadCount)
    /\ out' = Append(out, Report("busy-wait", prod'))
    /\ pc' = "c_init"
    /\ UNCHANGED <<inputs, data, shared, sems, i, flags, threads, workers,
                   err, exitCode, hist>>

BusyMain == BInit \/ BFlags \/ BCreate \/ BWhile \/ BSweep \/ BBreak

BusyRest == BCancel \/ BCancelling \/ BJoin \/ BCompute

(***************************************************************************)
(* The counter/signal round, lines 173-224.                                *)
(*                                                                         *)
(* The block calls pthread_create nowhere: ThFindProdWithSemaphore is      *)
(* started by no line of the source (only the prototype of line 29 and     *)
(* the definition of line 293 name it), and tid[] would still hold the     *)
(* handles of line 142.                                                    *)
(***************************************************************************)
Workers == 0 .. (gThreadCount - 1)

(* Lines 173-176. *)
CInit ==
    /\ pc = "c_init"
    /\ InitSharedVars
    /\ pc' = "c_seminit"
    /\ UNCHANGED <<inputs, data, sems, i, prod, flags, threads, workers, io,
                   hist>>

(* Lines 190-191, and the i = 0 of line 193. *)
CSemInit ==
    /\ pc = "c_seminit"
    /\ completed' = 0
    /\ mutex' = 1
    /\ i' = 0
    /\ pc' = "c_wait"
    /\ UNCHANGED <<inputs, data, shared, prod, flags, threads, workers, io,
                   hist>>

(* Lines 193-196: one sem_wait(&completed) per pass, gThreadCount passes;  *)
(* then line 198.  (The loops of this round declare an i of their own;     *)
(* the i of main is not read again.)                                       *)
CWait ==
    /\ pc = "c_wait"
    /\ IF i < gThreadCount
       THEN /\ completed > 0
            /\ completed' = completed - 1
            /\ waits' = waits + 1
            /\ i' = i + 1
            /\ pc' = pc
            /\ UNCHANGED zero_found
       ELSE /\ zero_found' = FALSE
            /\ i' = 0
            /\ pc' = "c_inspect"
            /\ UNCHANGED <<completed, waits>>
    /\ UNCHANGED <<inputs, data, shared, mutex, prod, all_done, found_zero,
                   threads, workers, io, posts, writes>>

(* Lines 199-204. *)
CInspect ==
    /\ pc = "c_inspect"
    /\ IF i < gThreadCount
       THEN IF gThreadProd[i] = 0
            THEN /\ zero_found' = TRUE
                 /\ pc' = "c_cancel"
                 /\ i' = i
            ELSE /\ i' = i + 1
                 /\ pc' = pc
                 /\ UNCHANGED zero_found
       ELSE /\ pc' = "c_cancel"
            /\ UNCHANGED <<i, zero_found>>
    /\ UNCHANGED <<inputs, data, shared, sems, prod, all_done, found_zero,
                   threads, workers, io, hist>>

(* Line 206. *)
CCancel ==
    /\ pc = "c_cancel"
    /\ pc' = IF zero_found THEN "c_cancelling" ELSE "c_join"
    /\ i' = 0
    /\ UNCHANGED <<inputs, data, shared, sems, prod, flags, threads,
                   workers, io, hist>>

(***************************************************************************)
(* pthread_cancel and pthread_join on a handle whose thread has been       *)
(* joined: the behaviour is undefined.  The call returns an error, which   *)
(* main ignores, or the process dies.                                      *)
(***************************************************************************)
StaleOutcomes == {"returns", "crashes"}

(* Lines 207-209: pthread_cancel(tid[i]). *)
CCancelling ==
    /\ pc = "c_cancelling"
    /\ IF i < gThreadCount
       THEN /\ ops' = Append(ops, <<"cancel", "c", tid[i]>>)
            /\ IF thr[tid[i]] = "joined"
               THEN /\ \E o \in StaleOutcomes :
                          pc' = IF o = "returns" THEN pc ELSE "crashed"
                    /\ UNCHANGED thr
               ELSE /\ thr' = [thr EXCEPT ![tid[i]] =
                                  IF @ = "running" THEN "cancel_pending" ELSE @]
                    /\ pc' = pc
            /\ i' = i + 1
       ELSE /\ pc' = "c_join"
            /\ i' = 0
            /\ UNCHANGED <<thr, ops>>
    /\ UNCHANGED <<inputs, data, shared, sems, prod, flags, tid, workers,
                   io, hist>>

(* Lines 212-214: pthread_join(tid[i]). *)
CJoin ==
    /\ pc = "c_join"
    /\ IF i < gThreadCount
       THEN /\ ops' = Append(ops, <<"join", "c", tid[i]>>)
            /\ IF thr[tid[i]] = "joined"
               THEN /\ \E o \in StaleOutcomes :
                          pc' = IF o = "returns" THEN pc ELSE "crashed"
                    /\ UNCHANGED thr
               ELSE /\ Terminated(tid[i])
                    /\ thr' = [thr EXCEPT ![tid[i]] = "joined"]
                    /\ pc' = pc
            /\ i' = i + 1
       ELSE /\ pc' = "c_destroy"
            /\ i' = i
            /\ UNCHANGED <<thr, ops>>
    /\ UNCHANGED <<inputs, data, shared, sems, prod, flags, tid, workers,
                   io, hist>>

(* Lines 216-217: sem_destroy changes the value of neither semaphore. *)
CDestroy ==
    /\ pc = "c_destroy"
    /\ pc' = "c_compute"
    /\ UNCHANGED <<inputs, data, shared, sems, i, prod, flags, threads,
                   workers, io, hist>>

(* Lines 223-224. *)
CCompute ==
    /\ pc = "c_compute"
    /\ prod' = ComputeTotalProduct(gThreadProd, gThreadCount)
    /\ out' = Append(out, Report("counter/signal", prod'))
    /\ pc' = "c_return"
    /\ UNCHANGED <<inputs, data, shared, sems, i, flags, threads, workers,
                   err, exitCode, hist>>

(* Line 227: main returns, which ends the process with status 0. *)
CReturn ==
    /\ pc = "c_return"
    /\ exitCode' = 0
    /\ pc' = "done"
    /\ UNCHANGED <<inputs, data, shared, sems, i, prod, flags, threads,
                   workers, out, err, hist>>

(***************************************************************************)
(* ThFindProdWithSemaphore, lines 293-322, run by the worker with thread   *)
(* number k.  A worker runs while the process does.                        *)
(***************************************************************************)
Alive == pc \notin {"done", "crashed"}

(* Lines 294-306: the parameters and the local product of the segment. *)
WScan(k) ==
    /\ Alive
    /\ wpc[k] = "start"
    /\ wLocalProd' = [wLocalProd EXCEPT ![k] =
                         LocalProduct(gData, params[k][2], params[k][3])]
    /\ wpc' = [wpc EXCEPT ![k] = "store"]
    /\ UNCHANGED <<inputs, data, shared, sems, pc, i, prod, flags, threads,
                   wReg, io, hist>>

(* Lines 308-310: the product is stored, then tested. *)
WStore(k) ==
    /\ Alive
    /\ wpc[k] = "store"
    /\ gThreadProd' = [gThreadProd EXCEPT ![params[k][1]] = wLocalProd[k]]
    /\ writes' = [writes EXCEPT ![k] = @ + 1]
    /\ wpc' = [wpc EXCEPT ![k] =
                  IF wLocalProd[k] = 0 THEN "post_zero" ELSE "wait_mutex"]
    /\ UNCHANGED <<inputs, data, gThreadDone, gDoneThreadCount, sems, pc, i,
                   prod, flags, threads, wLocalProd, wReg, io, waits, posts>>

(* Lines 311 and 321: sem_post(&completed), and the worker returns. *)
WPostZero(k) ==
    /\ Alive
    /\ wpc[k] = "post_zero"
    /\ completed' = completed + 1
    /\ posts' = posts + 1
    /\ wpc' = [wpc EXCEPT ![k] = "returned"]
    /\ UNCHANGED <<inputs, data, shared, mutex, pc, i, prod, flags, threads,
                   wLocalProd, wReg, io, waits, writes>>

(* Line 313: sem_wait(&mutex). *)
WWaitMutex(k) ==
    /\ Alive
    /\ wpc[k] = "wait_mutex"
    /\ mutex > 0
    /\ mutex' = mutex - 1
    /\ wpc' = [wpc EXCEPT ![k] = "incr_read"]
    /\ UNCHANGED <<inputs, data, shared, completed, pc, i, prod, flags,
                   threads, wLocalProd, wReg, io, hist>>

(* Line 314, gDoneThreadCount++: the read ... *)
WIncrRead(k) ==
    /\ Alive
    /\ wpc[k] = "incr_read"
    /\ wReg' = [wReg EXCEPT ![k] = gDoneThreadCount]
    /\ wpc' = [wpc EXCEPT ![k] = "incr_write"]
    /\ UNCHANGED <<inputs, data, shared, sems, pc, i, prod, flags, threads,
                   wLocalProd, io, hist>>

(* ... and the write. *)
WIncrWrite(k) ==
    /\ Alive
    /\ wpc[k] = "incr_write"
    /\ gDoneThreadCount' = wReg[k] + 1
    /\ wpc' = [wpc EXCEPT ![k] = "compare"]
    /\ UNCHANGED <<inputs, data, gThreadProd, gThreadDone, sems, pc, i, prod,
                   flags, threads, wLocalProd, wReg, io, hist>>

(* Line 315. *)
WCompare(k) ==
    /\ Alive
    /\ wpc[k] = "compare"
    /\ wpc' = [wpc EXCEPT ![k] =
                  IF gDoneThreadCount = gThreadCount
                  THEN "post_all" ELSE "post_mutex"]
    /\ UNCHANGED <<inputs, data, shared, sems, pc, i, prod, flags, threads,
                   wLocalProd, wReg, io, hist>>

(* Line 316. *)
WPostAll(k) ==
    /\ Alive
    /\ wpc[k] = "post_all"
    /\ completed' = completed + 1
    /\ posts' = posts + 1
    /\ wpc' = [wpc EXCEPT ![k] = "post_mutex"]
    /\ UNCHANGED <<inputs, data, shared, mutex, pc, i, prod, flags, threads,
                   wLocalProd, wReg, io, waits, writes>>

(* Lines 318 and 321: sem_post(&mutex), and the worker returns. *)
WPostMutex(k) ==
    /\ Alive
    /\ wpc[k] = "post_mutex"
    /\ mutex' = mutex + 1
    /\ wpc' = [wpc EXCEPT ![k] = "returned"]
    /\ UNCHANGED <<inputs, data, shared, completed, pc, i, prod, flags,
                   threads, wLocalProd, wReg, io, hist>>

ThFindProdWithSemaphore(k) ==
    \/ WScan(k) \/ WStore(k) \/ WPostZero(k)
    \/ WWaitMutex(k) \/ WIncrRead(k) \/ WIncrWrite(k)
    \/ WCompare(k) \/ WPostAll(k) \/ WPostMutex(k)

SemWorkers == \E k \in DOMAIN wpc : ThFindProdWithSemaphore(k)

SemMain ==
    \/ CInit \/ CSemInit \/ CWait \/ CInspect \/ CCancel \/ CCancelling
    \/ CJoin \/ CDestroy \/ CCompute \/ CReturn

(* Lines 123-227. *)
MainAfterExit == BusyMain \/ BusyRest \/ SemMain

(* No statement after line 120 and no statement of                         *)
(* ThFindProdWithSemaphore is ever executed.                               *)
UnreachedCode == ~ENABLED (MainAfterExit \/ SemWorkers)

(***************************************************************************)
(* Vocabulary of the properties.                                           *)
(***************************************************************************)
Min(a, b) == IF a <= b THEN a ELSE b

HasZero == \E k \in DOMAIN gData : gData[k] = 0

Reported(mode) == \E k \in 1 .. Len(out) : out[k].mode = mode

Modes == [k \in 1 .. Len(out) |-> out[k].mode]

ThreadedModes == {"join-barrier", "busy-wait", "counter/signal"}

(* The numbers the command line gives, for a command line of three         *)
(* arguments.                                                              *)
ArgN == Atoi(argv[1])
ArgT == Atoi(argv[2])
ArgZ == Atoi(argv[3])

CheckPcs == {"check_argc", "check_size", "check_count", "check_zero"}

(* The array has been generated. *)
Generated == pc \notin (CheckPcs \cup {"generate"}) /\ err = ""

(***************************************************************************)
(* C1.  For a non-empty array with no zero element, the product every      *)
(* threaded round of main reports equals the value of SqFindProd for the   *)
(* same array.                                                             *)
(***************************************************************************)
C1_RoundEqualsSequential ==
    \A k \in 1 .. Len(out) :
        (out[k].mode \in ThreadedModes /\ ~HasZero)
            => out[k].prod = SqFindProd(gData, arraySize)

(***************************************************************************)
(* C2.  For an array with a zero element, the product every threaded       *)
(* round of main reports is 0.                                             *)
(***************************************************************************)
C2_RoundZeroOnZero ==
    \A k \in 1 .. Len(out) :
        (out[k].mode \in ThreadedModes /\ HasZero) => out[k].prod = 0

(***************************************************************************)
(* C3.  A run with valid arguments has, when the process ends, reported a  *)
(* product for the four modes, in the order sequential, join-barrier,      *)
(* busy-wait, counter/signal.                                              *)
(***************************************************************************)
C3_FourReportsAtExit ==
    (pc = "done" /\ exitCode = 0)
        => Modes = <<"sequential", "join-barrier", "busy-wait",
                     "counter/signal">>

(***************************************************************************)
(* C4.  For N >= 1 and 1 <= T <= min(MAX_THREADS, N), CalculateIndices     *)
(* yields T segments with start_0 = 0, start_(k+1) = end_k + 1 and         *)
(* end_(T-1) = N - 1; segment k has N div T elements, one more if          *)
(* k < N mod T.  So every index of [0, N) lies in exactly one segment and  *)
(* two segment sizes differ by at most 1.                                  *)
(***************************************************************************)
SegStart(k) == indices[k][2]
SegEnd(k) == indices[k][3]
SegSize(k) == SegEnd(k) - SegStart(k) + 1

C4_Partition ==
    (indices # <<>> /\ gThreadCount <= Min(MAX_THREADS, arraySize))
        => LET N == arraySize
               T == gThreadCount
           IN  /\ DOMAIN indices = 0 .. (T - 1)
               /\ SegStart(0) = 0
               /\ \A k \in 0 .. (T - 2) : SegStart(k + 1) = SegEnd(k) + 1
               /\ SegEnd(T - 1) = N - 1
               /\ \A k \in 0 .. (T - 1) :
                      SegSize(k) = (N \div T) + (IF k < N % T THEN 1 ELSE 0)
               /\ \A e \in 0 .. (N - 1) :
                      Cardinality({k \in 0 .. (T - 1) :
                                      SegStart(k) <= e /\ e <= SegEnd(k)}) = 1
               /\ \A j, k \in 0 .. (T - 1) :
                      SegSize(j) - SegSize(k) \in {-1, 0, 1}

(* Reached: 3 elements split over 2 threads, the first segment the longer. *)
C4_Witness ==
    /\ indices # <<>>
    /\ arraySize = 3
    /\ gThreadCount = 2
    /\ SegSize(0) = 2
    /\ SegSize(1) = 1

(***************************************************************************)
(* C5, as claimed.  A run whose array size N is outside [1, MAX_SIZE],     *)
(* whose thread count T is outside [1, min(MAX_THREADS, N)] or whose zero  *)
(* index is outside [-1, N) creates no thread, computes and reports no     *)
(* product, and has exited with an error once it is past the checks.       *)
(***************************************************************************)
(* Each product main computes is printed by the action that computes it,  *)
(* so an empty out says that none was computed.                            *)
EndsInErrorExit ==
    /\ thr = <<>>
    /\ out = <<>>
    /\ pc \notin CheckPcs => (pc = "done" /\ exitCode = -1 /\ err # "")

C5_ErrorExitAsClaimed ==
    (/\ Len(argv) = 3
     /\ \/ ArgN \notin 1 .. MAX_SIZE
        \/ ArgT \notin 1 .. Min(MAX_THREADS, ArgN)
        \/ ArgZ \notin -1 .. (ArgN - 1))
        => EndsInErrorExit

(***************************************************************************)
(* C5, amended.  The same with the thread count checked against            *)
(* [1, MAX_THREADS] only: a run whose N is outside [1, MAX_SIZE], whose T  *)
(* is outside [1, MAX_THREADS] or whose zero index is outside [-1, N)      *)
(* creates no thread, computes and reports no product, and has exited      *)
(* with an error once it is past the checks.                               *)
(***************************************************************************)
C5_ErrorExit ==
    (/\ Len(argv) = 3
     /\ \/ ArgN \notin 1 .. MAX_SIZE
        \/ ArgT \notin 1 .. MAX_THREADS
        \/ ArgZ \notin -1 .. (ArgN - 1))
        => EndsInErrorExit

(* Reached: a thread count above MAX_THREADS, with a valid size and zero   *)
(* index, has ended the run with exit(-1).                                 *)
C5_Witness ==
    /\ Len(argv) = 3
    /\ ArgN \in 1 .. MAX_SIZE
    /\ ArgT > MAX_THREADS
    /\ ArgZ \in -1 .. (ArgN - 1)
    /\ pc = "done"
    /\ exitCode = -1
    /\ err = "Invalid Thread Count"

(***************************************************************************)
(* C10.  In the join-barrier round ComputeTotalProduct is called only      *)
(* after every one of the T threads created in the round has terminated    *)
(* and been joined, whether or not the array holds a zero, and main        *)
(* cancels no thread in that round.                                        *)
(***************************************************************************)
C10_JoinBarrier ==
    /\ \A k \in 1 .. Len(ops) : ops[k][2] = "a" => ops[k][1] # "cancel"
    /\ (pc = "a_compute" \/ Reported("join-barrier"))
           => \A k \in 0 .. (gThreadCount - 1) :
                  /\ Handle("a", k) \in DOMAIN thr
                  /\ thr[Handle("a", k)] = "joined"

(* Reached: the product of the join-barrier round is about to be computed  *)
(* for an array with a zero, three threads created and joined.             *)
C10_Witness ==
    /\ pc = "a_compute"
    /\ HasZero
    /\ gThreadCount = 3
    /\ \A k \in 0 .. 2 : thr[Handle("a", k)] = "joined"

(***************************************************************************)
CreatedIn(round) ==
    {ops[k][3] : k \in {j \in 1 .. Len(ops) :
                           ops[j][1] = "create" /\ ops[j][2] = round}}

JoinsOf(h) == {k \in 1 .. Len(ops) : ops[k][1] = "join" /\ ops[k][3] = h}

ComputeReached(round) ==
    \/ round = "a" /\ (pc = "a_compute" \/ Reported("join-barrier"))
    \/ round = "b" /\ (pc = "b_compute" \/ Reported("busy-wait"))
    \/ round = "c" /\ (pc = "c_compute" \/ Reported("counter/signal"))

C6_JoinDiscipline ==
    /\ \A k \in 1 .. Len(ops) :
           ops[k][1] \in {"cancel", "join"}
               => /\ ops[k][3] \in CreatedIn(ops[k][2])
                  /\ \A j \in JoinsOf(ops[k][3]) : j >= k
    /\ \A round \in {"a", "b", "c"} :
           ComputeReached(round)
               => \A h \in CreatedIn(round) : Cardinality(JoinsOf(h)) = 1

(* Reached: the round that runs has printed its product, its three         *)
(* threads created and each joined once, in the order of their creation.   *)
C6_Witness ==
    /\ pc = "a_exit"
    /\ gThreadCount = 3
    /\ ~HasZero
    /\ CreatedIn("a") = {Handle("a", k) : k \in 0 .. 2}
    /\ \A k \in 0 .. 2 : ops[3 + k + 1] = <<"join", "a", Handle("a", k)>>

(***************************************************************************)
Radix == 100 * 100

RECURSIVE BigMulCarry(_, _, _)
BigMulCarry(b, m, carry) ==
    IF b = <<>>
    THEN IF carry = 0 THEN <<>> ELSE <<carry>>
    ELSE LET v == Head(b) * m + carry
         IN  <<v % Radix>> \o BigMulCarry(Tail(b), m, v \div Radix)

(* b times m, for 0 <= m < Radix. *)
BigMul(b, m) == BigMulCarry(b, m, 0)

(* b modulo m, for 0 < m < Radix. *)
RECURSIVE BigMod(_, _)
BigMod(b, m) ==
    IF b = <<>> THEN 0 ELSE (BigMod(Tail(b), m) * Radix + Head(b)) % m

(* The exact product f[lo] * ... * f[hi]; 1 for an empty range. *)
RECURSIVE ExactProduct(_, _, _)
ExactProduct(f, lo, hi) ==
    IF lo > hi THEN <<1>> ELSE BigMul(ExactProduct(f, lo, hi - 1), f[hi])

FirstZero == CHOOSE k \in DOMAIN gData :
                 gData[k] = 0 /\ \A j \in DOMAIN gData : gData[j] = 0 => k <= j

(***************************************************************************)
(* C11.  SqFindProd(size) returns the product of gData[0 .. size-1]        *)
(* modulo NUM_LIMIT, a value of 0 .. NUM_LIMIT-1; when the array contains  *)
(* a zero it returns 0, having read the elements up to the first zero and  *)
(* none after it.  The sequential line of the output prints that value.    *)
(***************************************************************************)
C11_SqFindProd ==
    Generated =>
        LET p == SqFindProd(gData, arraySize)
        IN  /\ p \in 0 .. (NUM_LIMIT - 1)
            /\ p = BigMod(ExactProduct(gData, 0, arraySize - 1), NUM_LIMIT)
            /\ HasZero => /\ p = 0
                          /\ SqReads(gData, arraySize) = 0 .. FirstZero
            /\ ~HasZero => SqReads(gData, arraySize) = 0 .. (arraySize - 1)
            /\ Reported("sequential") => out[1].prod = p

(* A zero in the middle of a three-element array: an element follows it.   *)
C11_Witness ==
    /\ Generated
    /\ Reported("sequential")
    /\ arraySize = 3
    /\ gData[1] = 0
    /\ gData[2] = MAX_RANDOM_NUMBER
    /\ out[1].prod = 0

(***************************************************************************)
(* C16.  When a ThFindProd worker with thread number k has returned,       *)
(* gThreadProd[k] holds the modular product of gData[start .. end] of its  *)
(* segment and gThreadDone[k] is true.                                     *)
(***************************************************************************)
C16_ThFindProdPublishes ==
    \A h \in DOMAIN thr :
        thr[h] \in {"returned", "joined"} =>
            LET k == h[2]
            IN  /\ gThreadProd[k]
                       = LocalProduct(gData, params[k][2], params[k][3])
                /\ gThreadDone[k]

(***************************************************************************)
(* The partial products ThFindProdWithSemaphore computes and stores for    *)
(* the segments of CalculateIndices (lines 294-308): slot k holds the      *)
(* local product of segment k.  The function is applied to the array and   *)
(* the segments of the run; the program itself starts no thread on it.     *)
(***************************************************************************)
Partitioned == Generated /\ pc # "indices"

PublishedProducts ==
    [k \in ThreadIdx |->
        IF k < gThreadCount
        THEN LocalProduct(gData, indices[k][2], indices[k][3])
        ELSE 0]

(* Slot values ComputeTotalProduct is applied to: the ends of the range of *)
(* a partial product, the largest element, and small ones.                 *)
SlotValues == {0, 1, 2, MAX_RANDOM_NUMBER, NUM_LIMIT - 1}

SlotVectors(cnt) == [0 .. (cnt - 1) -> SlotValues]

(***************************************************************************)
(* C18.  NUM_LIMIT is a prime above MAX_RANDOM_NUMBER, every element       *)
(* GenerateInput produces lies in 0 .. MAX_RANDOM_NUMBER, and so the       *)
(* product SqFindProd returns, and the product ComputeTotalProduct         *)
(* returns over the partial products of all segments, is 0 if and only if  *)
(* the array contains a zero element.                                      *)
(***************************************************************************)
NumLimitIsPrime == \A d \in 2 .. (NUM_LIMIT - 1) : NUM_LIMIT % d # 0

C18_ZeroIffZeroElement ==
    /\ NumLimitIsPrime
    /\ MAX_RANDOM_NUMBER < NUM_LIMIT
    /\ Generated =>
           /\ \A k \in DOMAIN gData : gData[k] \in 0 .. MAX_RANDOM_NUMBER
           /\ SqFindProd(gData, arraySize) = 0 <=> HasZero
           /\ Reported("sequential") => (out[1].prod = 0 <=> HasZero)
    /\ Partitioned =>
           (ComputeTotalProduct(PublishedProducts, gThreadCount) = 0
                <=> HasZero)

(* Two segments over three non-zero elements, two of them the largest:     *)
(* the products are reduced, none to 0.                                    *)
C18_Witness ==
    /\ Partitioned
    /\ Reported("sequential")
    /\ gThreadCount = 2
    /\ arraySize = 3
    /\ gData[0] = MAX_RANDOM_NUMBER
    /\ gData[1] = GetRand(1, MAX_RANDOM_NUMBER, RandOfBuild[2])
    /\ gData[2] = MAX_RANDOM_NUMBER
    /\ PublishedProducts[0] \notin {0, 1}
    /\ ComputeTotalProduct(PublishedProducts, gThreadCount) # 0
    /\ out[1].prod # 0

(***************************************************************************)
(* C19.  With elements in 0 .. MAX_RANDOM_NUMBER and modulus NUM_LIMIT,    *)
(* every value formed by a multiplication of SqFindProd,                   *)
(* ThFindProdWithSemaphore and ComputeTotalProduct before its reduction    *)
(* is at most (NUM_LIMIT-1) * MAX_RANDOM_NUMBER, or (NUM_LIMIT-1)^2 in     *)
(* ComputeTotalProduct, both of which a signed 32-bit int holds; and the   *)
(* result of each of the three, reduced after every multiplication,        *)
(* equals the exact product of the same factors reduced once.              *)
(***************************************************************************)
(* The largest signed 32-bit int, 2^31 - 1. *)
IntMax == (2 ^ 30 - 1) * 2 + 1

ElementStepMax == (NUM_LIMIT - 1) * MAX_RANDOM_NUMBER

SlotStepMax == (NUM_LIMIT - 1) * (NUM_LIMIT - 1)

(* ComputeTotalProduct on every vector of slot values. *)
C19_SlotSteps ==
    \A cnt \in 1 .. MaxT : \A tp \in SlotVectors(cnt) :
        /\ TotalProducts(tp, 0, cnt, 1, {}) \subseteq 0 .. SlotStepMax
        /\ ComputeTotalProduct(tp, cnt)
               = BigMod(ExactProduct(tp, 0, cnt - 1), NUM_LIMIT)

C19_NoOverflow ==
    /\ ElementStepMax <= IntMax
    /\ SlotStepMax <= IntMax
    /\ C19_SlotSteps
    /\ Generated =>
           /\ SqProducts(gData, 0, arraySize, 1, {}) \subseteq 0 .. ElementStepMax
           /\ SqFindProd(gData, arraySize)
                  = BigMod(ExactProduct(gData, 0, arraySize - 1), NUM_LIMIT)
           /\ TotalProducts(gThreadProd, 0, gThreadCount, 1, {})
                  \subseteq 0 .. SlotStepMax
    /\ Partitioned =>
           /\ \A k \in 0 .. (gThreadCount - 1) :
                  /\ LocalProducts(gData, indices[k][2], indices[k][3], 1, {})
                         \subseteq 0 .. ElementStepMax
                  /\ PublishedProducts[k]
                         = BigMod(ExactProduct(gData, indices[k][2],
                                               indices[k][3]), NUM_LIMIT)
           /\ TotalProducts(PublishedProducts, 0, gThreadCount, 1, {})
                  \subseteq 0 .. SlotStepMax
           /\ ComputeTotalProduct(PublishedProducts, gThreadCount)
                  = BigMod(ExactProduct(gData, 0, arraySize - 1), NUM_LIMIT)

(* Three of the largest element in one segment and in the sequential       *)
(* scan: the second and third multiplications are of reduced values.       *)
C19_Witness ==
    /\ Partitioned
    /\ Reported("sequential")
    /\ gThreadCount = 1
    /\ arraySize = 3
    /\ \A k \in DOMAIN gData : gData[k] = MAX_RANDOM_NUMBER
    /\ MAX_RANDOM_NUMBER * MAX_RANDOM_NUMBER
           \in SqProducts(gData, 0, arraySize, 1, {})
    /\ MAX_RANDOM_NUMBER * MAX_RANDOM_NUMBER
           \in LocalProducts(gData, 0, arraySize - 1, 1, {})
    /\ PublishedProducts[0] = out[1].prod

(***************************************************************************)
(* C20.  ComputeTotalProduct returns the product of                        *)
(* gThreadProd[0 .. gThreadCount-1] modulo NUM_LIMIT, a value of           *)
(* 0 .. NUM_LIMIT-1, which is 0 when a slot is 0 and which is the same     *)
(* for every permutation of the slot values; the step of main that calls   *)
(* it assigns its result to prod and leaves gThreadProd, gThreadDone and   *)
(* gDoneThreadCount unchanged.                                             *)
(***************************************************************************)
TotalProductOf(tp, cnt) ==
    LET r == ComputeTotalProduct(tp, cnt)
        S == 0 .. (cnt - 1)
    IN  /\ r \in 0 .. (NUM_LIMIT - 1)
        /\ r = BigMod(ExactProduct(tp, 0, cnt - 1), NUM_LIMIT)
        /\ (\E k \in S : tp[k] = 0) => r = 0
        /\ \A q \in Permutations(S) :
               ComputeTotalProduct([k \in S |-> tp[q[k]]], cnt) = r

(* On every vector of slot values ... *)
C20_Function ==
    \A cnt \in 1 .. MaxT : \A tp \in SlotVectors(cnt) :
        TotalProductOf(tp, cnt)

(* ... and on the slots of every state of the program. *)
C20_State ==
    /\ C20_Function
    /\ Generated => TotalProductOf(gThreadProd, gThreadCount)

C20_Step ==
    (pc = "a_compute" /\ pc' # pc) =>
        /\ prod' = ComputeTotalProduct(gThreadProd, gThreadCount)
        /\ UNCHANGED <<gThreadProd, gThreadDone, gDoneThreadCount>>

C20_ComputeTotalProduct == []C20_State /\ [][C20_Step]_vars

(* The call of line 116 has returned, three slots folded. *)
C20_Witness ==
    /\ pc = "a_exit"
    /\ gThreadCount = 3
    /\ prod = ComputeTotalProduct(gThreadProd, gThreadCount)
    /\ out[2].prod = prod

=============================================================================
